---- MODULE Spec2Model ----
(***************************************************************************)
(* A model of json-logs-to-adx: scripts/ingest_inline.py (the inline       *)
(* ingest command), scripts/utils/stdin_utils.py (the input resolver) and  *)
(* scripts/utils/adx_cli_auth.py (token acquisition through the Azure CLI).*)
(*                                                                         *)
(* Two programs of the repository are modelled, selected by prog:          *)
(*   "ingest_inline"  python ingest_inline.py ...   (main)                 *)
(*   "adx_cli_auth"   python adx_cli_auth.py        (the module's __main__)*)
(* The token acquisition is modelled step by step in the second; the first *)
(* calls it as one step and goes on to parse, batch and send.              *)
(*                                                                         *)
(* Text is modelled as a sequence of lines (the text split at "\n"), each  *)
(* line one string of a small alphabet; json.loads, json.dumps and the     *)
(* strip functions are tables over these strings.                          *)
(***************************************************************************)
EXTENDS Integers, Sequences, FiniteSets, TLC

\* ----------------------------------------------------------------- bounds
MaxLines == 3          \* longest input text, in lines
MaxBatch == 2          \* largest --batch-size tried in NDJSON mode
LoginTimeout == 1      \* the timeout of the login step, in clock ticks
MaxChildLines == 1     \* lines the login child may print

\* ------------------------------------------------------ program constants
DefaultBatchSize == 100
HttpOk == 200

\* ------------------------------------------------------------ JSON, text
None == "<None>"

\* Lines an input text is made of.
ObjA      == "{\"a\":1}"
ObjBPad   == " {\"b\": 2} "
ObjBInner == "{\"b\": 2}"
ObjBLeft  == "{\"b\": 2} "
ObjBRight == " {\"b\": 2}"
ObjBComp  == "{\"b\":2}"
BadLine   == "{bad}"
ArrLine   == "[1]"
BlankLine == ""

LineTexts == {ObjA, ObjBPad, BadLine, ArrLine, BlankLine}
ScalarTexts == {"\"s\"", "7", "1.5", "true", "null"}

\* Outputs of `az account get-access-token -o json` on exit code 0.
TokA == "tokA"
TokB == "tokB"
TokenValues == {TokA, TokB}
AzCamel   == "{\"accessToken\":\"tokA\"}"
AzSnake   == "{\"access_token\":\"tokB\"}"
AzNoField == "{\"expiresOn\":\"later\"}"
AzNotJson == "WARNING: extension out of date\n{\"accessToken\":\"tokA\"}"
AzNonDict == "[]"
AzOutputs == {AzCamel, AzSnake, AzNoField, AzNotJson, AzNonDict}

\* str.lstrip / str.rstrip / str.strip on one line.
LStrip(s) ==
  CASE s = ObjBPad -> ObjBLeft
    [] s = ObjBRight -> ObjBInner
    [] OTHER -> s

RStrip(s) ==
  CASE s = ObjBPad -> ObjBRight
    [] s = ObjBLeft -> ObjBInner
    [] OTHER -> s

Strip(s) == LStrip(RStrip(s))

\* json.loads: the parsed value, or the JSONDecodeError it raises.
JsonLoads(s) ==
  CASE s = ObjA      -> [type |-> "dict", val |-> "a=1", err |-> ""]
    [] s = ObjBInner -> [type |-> "dict", val |-> "b=2", err |-> ""]
    [] s = ObjBComp  -> [type |-> "dict", val |-> "b=2", err |-> ""]
    [] s = ArrLine   -> [type |-> "list", val |-> "[1]", err |-> ""]
    [] s = "\"s\""   -> [type |-> "str", val |-> "s", err |-> ""]
    [] s = "7"       -> [type |-> "int", val |-> "7", err |-> ""]
    [] s = "1.5"     -> [type |-> "float", val |-> "1.5", err |-> ""]
    [] s = "true"    -> [type |-> "bool", val |-> "True", err |-> ""]
    [] s = "null"    -> [type |-> "NoneType", val |-> None, err |-> ""]
    [] s = AzCamel   -> [type |-> "dict", val |-> "accessToken=tokA", err |-> ""]
    [] s = AzSnake   -> [type |-> "dict", val |-> "access_token=tokB", err |-> ""]
    [] s = AzNoField -> [type |-> "dict", val |-> "expiresOn=later", err |-> ""]
    [] s = AzNonDict -> [type |-> "list", val |-> "[]", err |-> ""]
    [] s = BadLine   -> [type |-> "error", val |-> None,
                         err |-> "Expecting property name enclosed in double quotes: line 1 column 2 (char 1)"]
    [] OTHER         -> [type |-> "error", val |-> None,
                         err |-> "Expecting value: line 1 column 1 (char 0)"]

\* json.dumps(obj, separators=(",", ":")) of a parsed object.
JsonDumps(v) ==
  CASE v.val = "a=1" -> ObjA
    [] v.val = "b=2" -> ObjBComp
    [] OTHER -> v.val

\* dict.get(key) on a parsed az output.
DictGet(v, key) ==
  CASE v.val = "accessToken=tokA" /\ key = "accessToken" -> TokA
    [] v.val = "access_token=tokB" /\ key = "access_token" -> TokB
    [] OTHER -> None

Truthy(x) == x # None /\ x # ""

\* Sequences of length 0..n over S.
SeqsUpTo(S, n) == UNION {[1..k -> S] : k \in 0..n}

IsBlank(line) == Strip(line) = ""

\* str.strip() on a whole text: leading and trailing blank lines go, the
\* first line loses its leading and the last its trailing whitespace.
RECURSIVE DropLeadingBlank(_)
DropLeadingBlank(t) ==
  IF t = <<>> THEN <<>>
  ELSE IF IsBlank(Head(t)) THEN DropLeadingBlank(Tail(t))
  ELSE t

RECURSIVE DropTrailingBlank(_)
DropTrailingBlank(t) ==
  IF t = <<>> THEN <<>>
  ELSE IF IsBlank(t[Len(t)]) THEN DropTrailingBlank(SubSeq(t, 1, Len(t) - 1))
  ELSE t

TextStrip(t) ==
  LET core == DropTrailingBlank(DropLeadingBlank(t)) IN
  [i \in 1..Len(core) |->
     LET l == IF i = 1 THEN LStrip(core[i]) ELSE core[i] IN
     IF i = Len(core) THEN RStrip(l) ELSE l]

\* json.loads of a whole text (single-object mode): one value and nothing
\* else parses; a second value or a malformed line is a JSONDecodeError.
JsonLoadsText(t) ==
  IF Len(t) = 1 THEN JsonLoads(t[1])
  ELSE [type |-> "error", val |-> None, err |-> "Extra data: line 2 column 1"]

\* ------------------------------------------------------------------ state
VARIABLES
  prog,        \* which program runs: "ingest_inline" or "adx_cli_auth"
  pc,          \* the program's position
  exit_code,   \* the process exit code, -1 while it runs
  text,        \* the text the operator supplies (--json value or stdin)
  ndjson,      \* --ndjson / --no-ndjson
  batch_size,  \* --batch-size
  stdin_read,  \* whether sys.stdin.read() was called
  source,      \* main's source after strip(), as lines
  token,       \* the bearer token held, None before acquisition
  idx,         \* NDJSON loop: 1-based number of the next line
  compacted,   \* NDJSON loop: the batch buffer
  bad_lines,   \* NDJSON loop: malformed lines skipped
  total_sent,  \* NDJSON loop: records sent
  requests,    \* HTTP requests issued, in order, each with its response
  stderr,      \* what was written to stderr, in order
  stdout,      \* what was written to stdout, in order
  attempt,     \* get_adx_token: number of the cached-token lookup running
  auth_trace,  \* get_adx_token: the lookups and logins made, in order
  elapsed,     \* login: clock ticks since the child was started
  child,       \* login child: "none", "running", "exited0", "exited1", "killed"
  pipe,        \* login child: lines written to its stdout and not read yet
  pipe_open,   \* login child: whether the write end of its stdout is open
  written,     \* login child: lines written so far
  aggregated   \* login: the lines read so far

ingest_vars == <<idx, compacted, bad_lines, total_sent, requests>>
input_vars == <<prog, text, ndjson, batch_size>>
child_vars == <<elapsed, child, pipe, pipe_open, written>>
auth_vars == <<attempt, auth_trace, aggregated>>
vars == <<prog, pc, exit_code, text, ndjson, batch_size, stdin_read, source,
          token, idx, compacted, bad_lines, total_sent, requests, stderr,
          stdout, attempt, auth_trace, elapsed, child, pipe, pipe_open,
          written, aggregated>>

\* One line written to a stream: its fixed text, the texts interpolated into
\* it, in order, and the number interpolated into it (a line number, a
\* status code, an exit code; 0 when there is none).
Line(msg, args, n) == [msg |-> msg, args |-> args, num |-> n]
Log(msg) == Line(msg, <<>>, 0)

\* An error message (an exception's text, an error string returned) has the
\* same shape. Wrap: the message that interpolates the message e after the
\* fixed text pre.
NoErr == Log("")
Wrap(pre, e) == Line(pre, <<e.msg>> \o e.args, e.num)

\* The texts tried: every text of up to MaxLines lines, and each scalar
\* alone.
Texts == SeqsUpTo(LineTexts, MaxLines) \cup {<<t>> : t \in ScalarTexts}

BatchSizes == 0..MaxBatch

InitCommon ==
  /\ pc = "start"
  /\ exit_code = -1
  /\ stdin_read = FALSE
  /\ source = <<>>
  /\ token = None
  /\ idx = 1
  /\ compacted = <<>>
  /\ bad_lines = 0
  /\ total_sent = 0
  /\ requests = <<>>
  /\ stderr = <<>>
  /\ stdout = <<>>
  /\ attempt = 0
  /\ auth_trace = <<>>
  /\ elapsed = 0
  /\ child = "none"
  /\ pipe = <<>>
  /\ pipe_open = FALSE
  /\ written = 0
  /\ aggregated = <<>>

InitIngest ==
  /\ prog = "ingest_inline"
  /\ text \in Texts
  /\ ndjson \in BOOLEAN
  /\ batch_size \in (IF ndjson THEN BatchSizes ELSE {DefaultBatchSize})
  /\ InitCommon

InitAuth ==
  /\ prog = "adx_cli_auth"
  /\ text = <<>>
  /\ ndjson = FALSE
  /\ batch_size = DefaultBatchSize
  /\ InitCommon

Init == InitIngest \/ InitAuth

\* The process ends with this exit code.
Exit(code) ==
  /\ pc' = "done"
  /\ exit_code' = code

\* ------------------------------------------------- stdin_utils.py, main
\* read_text_maybe_from_stdin: whether stdin is the source of the text.
UsesStdin(option) == option = "none" \/ option = "dash"

\* read_text_maybe_from_stdin: stdin is read only when it is no terminal and
\* select() reports it ready.
StdinReadable(is_tty, has_data) == ~is_tty /\ has_data

EmptyStdinError ==
  "ERROR: No --json provided and no data on STDIN. Provide --json or pipe JSON into this command."

\* main, lines 18-30: resolve the input text, strip it, refuse an empty one.
\* option: how --json was given ("value", "dash" for '-', "none" when omitted).
ResolveInput ==
  /\ prog = "ingest_inline"
  /\ pc = "start"
  /\ \E option \in {"value", "dash", "none"}, is_tty \in BOOLEAN,
        has_data \in BOOLEAN, read_ok \in BOOLEAN :
       IF UsesStdin(option) /\ ~(StdinReadable(is_tty, has_data) /\ read_ok)
       THEN /\ stdin_read' = (StdinReadable(is_tty, has_data))
            /\ stderr' = Append(stderr, Log(EmptyStdinError))
            /\ source' = source
            /\ Exit(2)
       ELSE /\ stdin_read' = UsesStdin(option)
            /\ IF TextStrip(text) = <<>>
               THEN /\ stderr' = Append(stderr, Log("ERROR: Empty input for JSON."))
                    /\ source' = <<>>
                    /\ Exit(2)
               ELSE /\ source' = TextStrip(text)
                    /\ pc' = "auth"
                    /\ UNCHANGED <<stderr, exit_code>>
  /\ UNCHANGED <<input_vars, token, ingest_vars, stdout, auth_vars, child_vars>>

\* ------------------------------------------------------- HTTP, send_batch
ConnError == [kind |-> "conn", status |-> 0, body |-> "connection refused"]
Statuses == {HttpOk, 204, 404}
Responses ==
  {[kind |-> "http", status |-> s, body |-> "body"] : s \in Statuses}
    \cup {ConnError}

\* A variant that takes only a server error for a failure.
StatusFailed_NotServerError(resp) == resp.status >= 500

\* send_batch line 53 and main line 113: the response is a failure.
StatusFailed(resp) == resp.status # HttpOk

IsSuccess2xx(resp) == resp.kind = "http" /\ resp.status \in 200..299

\* What an uncaught exception leaves on stderr (the traceback's last line).
Uncaught(resp) ==
  IF resp.kind = "conn"
  THEN Line("Traceback: requests.exceptions.ConnectionError", <<resp.body>>, 0)
  ELSE Line("Traceback: RuntimeError: INGEST FAILED", <<resp.body>>, resp.status)

Request(batch, resp) == [batch |-> batch, token |-> token, resp |-> resp]

\* main line 75: max(1, batch_size).
BatchLimit(n) == IF n > 1 THEN n ELSE 1

\* A variant that sends one record late.
ShouldSend_Off(buf, n) == Len(buf) > BatchLimit(n)

\* main line 75: the batch is full.
ShouldSend(buf, n) == Len(buf) >= BatchLimit(n)

\* A variant that counts requests, not records.
AfterSendTotal_One(total, batch) == total + 1

\* main lines 78 and 84: the count of records sent after a batch went out.
AfterSendTotal(total, batch) == total + Len(batch)

\* A variant that does not clear the buffer.
BufferAfterSend_Kept(buf) == buf

\* main line 80: the buffer after a send in the loop.
BufferAfterSend(buf) == <<>>

\* main line 68: the parsed line is a record.
IsRecord(v) == v.type = "dict"

\* A variant without the test for None.
RejectedTopLevel_NoNull(v) == v.type \in {"list", "str", "int", "float", "bool"}

\* main line 91: the top-level value single-object mode refuses.
RejectedTopLevel(v) ==
  v.type \in {"list", "str", "int", "float", "bool"} \/ v.type = "NoneType"

\* main lines 62-80: one iteration of the NDJSON loop, the send included.
NdjsonLine ==
  /\ pc = "nd_loop"
  /\ idx <= Len(source)
  /\ LET s == Strip(source[idx])
         v == JsonLoads(s)
     IN
     IF s = ""
     THEN /\ idx' = idx + 1
          /\ UNCHANGED <<compacted, bad_lines, total_sent, requests, stderr,
                         pc, exit_code>>
     ELSE IF v.type = "error" \/ ~IsRecord(v)
     THEN /\ bad_lines' = bad_lines + 1
          /\ stderr' = Append(stderr,
               Line("WARN: Skipping malformed JSON on line",
                    <<IF v.type = "error" THEN v.err
                      ELSE "Top-level must be a JSON object">>,
                    idx))
          /\ idx' = idx + 1
          /\ UNCHANGED <<compacted, total_sent, requests, pc, exit_code>>
     ELSE LET buf == Append(compacted, JsonDumps(v)) IN
          IF ~ShouldSend(buf, batch_size)
          THEN /\ compacted' = buf
               /\ idx' = idx + 1
               /\ UNCHANGED <<bad_lines, total_sent, requests, stderr, pc,
                              exit_code>>
          ELSE \E resp \in Responses :
                 /\ requests' = Append(requests, Request(buf, resp))
                 /\ compacted' = BufferAfterSend(buf)
                 /\ UNCHANGED bad_lines
                 /\ IF resp.kind = "conn" \/ StatusFailed(resp)
                    THEN /\ stderr' = Append(stderr, Uncaught(resp))
                         /\ Exit(1)
                         /\ UNCHANGED <<idx, total_sent>>
                    ELSE /\ total_sent' = AfterSendTotal(total_sent, buf)
                         /\ idx' = idx + 1
                         /\ UNCHANGED <<stderr, pc, exit_code>>
  /\ UNCHANGED <<input_vars, stdin_read, source, token, stdout, auth_vars,
                 child_vars>>

Summary(sent, skipped) ==
  [msg |-> "Ingest OK (NDJSON)", sent |-> sent, skipped |-> skipped]

IngestOk == [msg |-> "Ingest OK", sent |-> 0, skipped |-> 0]

\* main lines 81-86: flush the remaining partial batch and report.
NdjsonFlush ==
  /\ pc = "nd_loop"
  /\ idx > Len(source)
  /\ IF compacted = <<>>
     THEN /\ stdout' = Append(stdout, Summary(total_sent, bad_lines))
          /\ Exit(0)
          /\ UNCHANGED <<total_sent, requests, stderr>>
     ELSE \E resp \in Responses :
            /\ requests' = Append(requests, Request(compacted, resp))
            /\ IF resp.kind = "conn" \/ StatusFailed(resp)
               THEN /\ stderr' = Append(stderr, Uncaught(resp))
                    /\ Exit(1)
                    /\ UNCHANGED <<total_sent, stdout>>
               ELSE /\ total_sent' = AfterSendTotal(total_sent, compacted)
                    /\ stdout' = Append(stdout,
                         Summary(AfterSendTotal(total_sent, compacted), bad_lines))
                    /\ Exit(0)
                    /\ UNCHANGED stderr
  /\ UNCHANGED <<input_vars, stdin_read, source, token, idx, compacted,
                 bad_lines, auth_vars, child_vars>>

\* main lines 88-119: single-object mode.
SingleObject ==
  /\ pc = "single"
  /\ LET v == JsonLoadsText(source) IN
     IF v.type = "error" \/ RejectedTopLevel(v)
     THEN /\ stderr' = Append(stderr,
               Line("ERROR: Invalid JSON input",
                    <<IF v.type = "error" THEN v.err
                      ELSE "Top-level must be a JSON object">>, 0))
          /\ Exit(2)
          /\ UNCHANGED <<requests, stdout>>
     ELSE \E resp \in Responses :
            /\ requests' = Append(requests, Request(<<JsonDumps(v)>>, resp))
            /\ IF resp.kind = "conn"
               THEN /\ stderr' = Append(stderr, Line("REQUEST ERROR", <<resp.body>>, 0))
                    /\ Exit(1)
                    /\ UNCHANGED stdout
               ELSE IF StatusFailed(resp)
               THEN /\ stderr' = Append(stderr,
                         Line("INGEST FAILED", <<resp.body>>, resp.status))
                    /\ Exit(1)
                    /\ UNCHANGED stdout
               ELSE /\ stdout' = Append(stdout, IngestOk)
                    /\ Exit(0)
                    /\ UNCHANGED stderr
  /\ UNCHANGED <<input_vars, stdin_read, source, token, idx, compacted,
                 bad_lines, total_sent, auth_vars, child_vars>>

\* ---------------------------------------------------- adx_cli_auth.py
\* What `az account get-access-token` may answer: (returncode, stdout,
\* stderr) as _run_az returns them. Exit code 0 comes with one of AzOutputs;
\* a failing call prints an error text or nothing, and no token.
AzErrText == "ERROR: Please run 'az login' to setup account."
AzResults ==
  {[code |-> 0, out |-> o, err |-> ""] : o \in AzOutputs}
    \cup {[code |-> 1, out |-> o, err |-> e] :
            o \in {"", "az: error"}, e \in {"", AzErrText}}

\* The strings that hold a token value.
CarriesToken(s) == s \in TokenValues \cup {AzCamel, AzSnake, AzNotJson}

\* _get_access_token_once lines 68 and 83: data.get("accessToken") or
\* data.get("access_token").
ExtractToken(v) ==
  IF Truthy(DictGet(v, "accessToken")) THEN DictGet(v, "accessToken")
  ELSE DictGet(v, "access_token")

\* _get_access_token_once lines 65-75 and 80-90: what one az call comes to.
\* "raise": data is no dict, data.get raises AttributeError, which the
\* except clause for JSONDecodeError does not catch.
CallOutcome(r) ==
  IF r.code # 0 THEN "nonzero"
  ELSE LET v == JsonLoads(r.out) IN
       IF v.type = "error" THEN "parse_error"
       ELSE IF v.type # "dict" THEN "raise"
       ELSE IF Truthy(ExtractToken(v)) THEN "token"
       ELSE "missing"

\* A variant that tries the scope form after any failure of the resource form.
TriesScope_AnyFailure(outcome) == outcome \in {"nonzero", "missing", "parse_error"}

\* _get_access_token_once lines 65-79: the scope form is tried after the
\* resource form came to this outcome.
TriesScope(outcome) == outcome = "nonzero"

\* A variant that puts the output that did not parse into the message.
ParseErrorArg_Output(r) == r.out

\* _get_access_token_once lines 75 and 90: the text interpolated into the
\* message of a parse failure (the JSONDecodeError's own text).
ParseErrorArg(r) == JsonLoads(r.out).err

\* _get_access_token_once lines 73-75, 88-93: the error message returned.
LookupError(form, r) ==
  LET outcome == CallOutcome(r) IN
  CASE outcome = "missing" /\ form = "resource" ->
         Log("Azure CLI returned success but token field missing")
    [] outcome = "missing" /\ form = "scope" ->
         Log("Azure CLI returned success but token field missing (scope mode)")
    [] outcome = "parse_error" /\ form = "resource" ->
         Line("Failed to parse Azure CLI token JSON", <<ParseErrorArg(r)>>, 0)
    [] outcome = "parse_error" /\ form = "scope" ->
         Line("Failed to parse Azure CLI token JSON (scope mode)", <<ParseErrorArg(r)>>, 0)
    [] OTHER ->
         IF Strip(r.err) # "" THEN Line("", <<Strip(r.err)>>, 0)
         ELSE IF Strip(r.out) # "" THEN Line("", <<Strip(r.out)>>, 0)
         ELSE Line("Azure CLI get-access-token failed with code", <<>>, r.code)

AttributeErrorText == "'list' object has no attribute 'get'"

\* The last entry of auth_trace, changed.
Call(form, r) == [form |-> form, code |-> r.code, outcome |-> CallOutcome(r)]
Lookup(calls, result) == [op |-> "lookup", calls |-> calls, result |-> result]
Login(result) == [op |-> "login", calls |-> <<>>, result |-> result]
SetLast(trace, e) == [trace EXCEPT ![Len(trace)] = e]

\* __main__ lines 201-208: the exception get_adx_token raised is logged and
\* the process exits 1.
Fatal(log, e) ==
  /\ stderr' = Append(log, Wrap("ERROR", e))
  /\ Exit(1)

\* A variant that looks the token up again whatever the login came to.
AfterLogin_Always(ok) == "resource"

\* get_adx_token lines 187-196: what follows the login.
AfterLogin(ok) == IF ok THEN "resource" ELSE "fatal"

\* get_adx_token lines 181-184 and 194-196 with __main__: the lookup
\* returned (token, error).
LookupReturns(log, tok, e) ==
  IF Truthy(tok)
  THEN /\ token' = tok
       /\ stderr' = Append(log,
            Log("Token acquired successfully (not printing the token)."))
       /\ Exit(0)
  ELSE /\ token' = token
       /\ IF attempt = 1
          THEN /\ stderr' = Append(log,
                    Wrap("No cached ADX token available from Azure CLI", e))
               /\ pc' = "login"
               /\ exit_code' = exit_code
          ELSE Fatal(log, Wrap("Failed to obtain ADX token after login", e))

\* __main__ line 202 and get_adx_token lines 176-180: az must be on PATH.
AuthStart ==
  /\ prog = "adx_cli_auth"
  /\ pc = "start"
  /\ \E az_exists \in BOOLEAN :
       IF az_exists
       THEN /\ pc' = "resource"
            /\ attempt' = 1
            /\ UNCHANGED <<stderr, exit_code>>
       ELSE /\ Fatal(stderr, Log("Azure CLI (az) is required but was not found on PATH."))
            /\ UNCHANGED attempt
  /\ UNCHANGED <<input_vars, stdin_read, source, token, ingest_vars, stdout,
                 auth_trace, aggregated, child_vars>>

\* _get_access_token_once lines 62-79: the resource form.
LookupResource ==
  /\ pc = "resource"
  /\ \E r \in AzResults :
       LET outcome == CallOutcome(r)
           call == Call("resource", r)
           log == Append(stderr,
                    Log("Attempting to get ADX token from Azure CLI cache (resource mode)..."))
       IN
       IF outcome = "token"
       THEN /\ auth_trace' = Append(auth_trace, Lookup(<<call>>, "token"))
            /\ LookupReturns(
                 Append(log, Log("Obtained ADX token from Azure CLI cache.")),
                 ExtractToken(JsonLoads(r.out)), NoErr)
       ELSE IF outcome = "raise"
       THEN /\ auth_trace' = Append(auth_trace, Lookup(<<call>>, "raise"))
            /\ Fatal(log, Log(AttributeErrorText))
            /\ UNCHANGED token
       ELSE IF TriesScope(outcome)
       THEN /\ auth_trace' = Append(auth_trace, Lookup(<<call>>, "pending"))
            /\ stderr' = Append(log,
                 Log("Resource mode failed; retrying Azure CLI get-access-token using scope..."))
            /\ pc' = "scope"
            /\ UNCHANGED <<token, exit_code>>
       ELSE /\ auth_trace' = Append(auth_trace, Lookup(<<call>>, "fail"))
            /\ LookupReturns(log, None, LookupError("resource", r))
  /\ UNCHANGED <<input_vars, stdin_read, source, ingest_vars, stdout, attempt,
                 aggregated, child_vars>>

\* _get_access_token_once lines 79-93: the scope form.
LookupScope ==
  /\ pc = "scope"
  /\ \E r \in AzResults :
       LET outcome == CallOutcome(r)
           last == auth_trace[Len(auth_trace)]
           calls == Append(last.calls, Call("scope", r))
       IN
       IF outcome = "token"
       THEN /\ auth_trace' = SetLast(auth_trace, Lookup(calls, "token"))
            /\ LookupReturns(
                 Append(stderr, Log("Obtained ADX token from Azure CLI cache (scope mode).")),
                 ExtractToken(JsonLoads(r.out)), NoErr)
       ELSE IF outcome = "raise"
       THEN /\ auth_trace' = SetLast(auth_trace, Lookup(calls, "raise"))
            /\ Fatal(stderr, Log(AttributeErrorText))
            /\ UNCHANGED token
       ELSE /\ auth_trace' = SetLast(auth_trace, Lookup(calls, "fail"))
            /\ LookupReturns(stderr, None, LookupError("scope", r))
  /\ UNCHANGED <<input_vars, stdin_read, source, ingest_vars, stdout, attempt,
                 aggregated, child_vars>>

\* Lines `az login --use-device-code` prints.
HintLine ==
  "To sign in, use a web browser to open the page https://microsoft.com/devicelogin and enter the code ABCD-1234 to authenticate."
PlainLine == "Retrieving tenants and subscriptions for the selection..."
ChildLines == {HintLine, PlainLine}

\* _print_login_instructions_from_output line 106: the line holds a URL and
\* the word "code".
IsLoginHint(l) == l = HintLine

\* _print_login_instructions_from_output: the hints logged for these lines.
RECURSIVE LoginHints(_)
LoginHints(ls) ==
  IF ls = <<>> THEN <<>>
  ELSE (IF Strip(Head(ls)) # "" /\ IsLoginHint(Strip(Head(ls)))
        THEN <<Line("Azure login hint", <<Strip(Head(ls))>>, 0)>>
        ELSE <<>>) \o LoginHints(Tail(ls))

\* get_adx_token lines 187-196 with __main__: _interactive_login returned.
LoginReturns(log, ok, result) ==
  /\ auth_trace' = SetLast(auth_trace, Login(result))
  /\ IF AfterLogin(ok) = "resource"
     THEN /\ stderr' = log
          /\ pc' = "resource"
          /\ attempt' = 2
          /\ exit_code' = exit_code
     ELSE /\ Fatal(log, Log("Azure CLI login failed or timed out."))
          /\ attempt' = attempt

\* _interactive_login lines 117-134: start the child.
LoginStart ==
  /\ pc = "login"
  /\ LET log == Append(stderr,
                  Log("Starting Azure CLI device login flow (az login --use-device-code)..."))
     IN
     \E spawned \in {"ok", "not_found", "os_error"} :
       IF spawned = "ok"
       THEN /\ auth_trace' = Append(auth_trace, Login("running"))
            /\ child' = "running"
            /\ pipe_open' = TRUE
            /\ elapsed' = 0
            /\ stderr' = log
            /\ pc' = "login_loop"
            /\ UNCHANGED <<attempt, exit_code>>
       ELSE /\ auth_trace' = Append(auth_trace, Login("spawn_error"))
            /\ Fatal(Append(log,
                  IF spawned = "not_found"
                  THEN Log("ERROR: Azure CLI (az) not found on PATH.")
                  ELSE Line("ERROR: Failed to start az login", <<"[Errno 13] Permission denied">>, 0)),
                 Log("Azure CLI login failed or timed out."))
            /\ UNCHANGED <<attempt, child, pipe_open, elapsed>>
  /\ UNCHANGED <<input_vars, stdin_read, source, token, ingest_vars, stdout,
                 aggregated, pipe, written>>

\* _interactive_login line 139: readline() returns a line when one is in the
\* pipe, '' at end of file, and blocks otherwise.
ReadlineReturns == pipe # <<>> \/ ~pipe_open

\* _interactive_login line 145: the timeout has passed.
TimedOut(t) == t > LoginTimeout

\* _interactive_login lines 136-159: one iteration of the loop, with what
\* follows the loop when it breaks.
LoginLoop ==
  /\ pc = "login_loop"
  /\ ReadlineReturns
  /\ LET line == IF pipe # <<>> THEN <<Head(pipe)>> ELSE <<>>
         agg == aggregated \o line
         log == stderr \o LoginHints(line)
     IN
     /\ pipe' = IF pipe # <<>> THEN Tail(pipe) ELSE pipe
     /\ aggregated' = agg
     /\ IF child = "exited0"
        THEN /\ LoginReturns(
                  Append(log, Log("Azure CLI login completed successfully.")),
                  TRUE, "ok")
             /\ UNCHANGED <<child, pipe_open>>
        ELSE IF child = "exited1"
        THEN /\ LoginReturns(
                  Append(log, Line("ERROR: Azure CLI login failed with exit code", <<>>, 1))
                    \o LoginHints(agg),
                  FALSE, "failed")
             /\ UNCHANGED <<child, pipe_open>>
        ELSE IF TimedOut(elapsed)
        THEN /\ child' = "killed"
             /\ pipe_open' = FALSE
             /\ LoginReturns(
                  Append(log, Log("ERROR: Azure CLI login timed out.")),
                  FALSE, "timeout")
        ELSE /\ stderr' = log
             /\ UNCHANGED <<pc, exit_code, attempt, auth_trace, child, pipe_open>>
  /\ UNCHANGED <<input_vars, stdin_read, source, token, ingest_vars, stdout,
                 elapsed, written>>

\* ------------------------------------------- the login child and the clock
ChildWrite ==
  /\ pc = "login_loop"
  /\ child = "running"
  /\ pipe_open
  /\ written < MaxChildLines
  /\ \E l \in ChildLines : pipe' = Append(pipe, l)
  /\ written' = written + 1
  /\ UNCHANGED <<input_vars, pc, exit_code, stdin_read, source, token,
                 ingest_vars, stderr, stdout, auth_vars, elapsed, child,
                 pipe_open>>

ChildCloseStdout ==
  /\ pc = "login_loop"
  /\ child = "running"
  /\ pipe_open
  /\ pipe_open' = FALSE
  /\ UNCHANGED <<input_vars, pc, exit_code, stdin_read, source, token,
                 ingest_vars, stderr, stdout, auth_vars, elapsed, child,
                 pipe, written>>

ChildExit ==
  /\ pc = "login_loop"
  /\ child = "running"
  /\ \E rc \in {0, 1} : child' = IF rc = 0 THEN "exited0" ELSE "exited1"
  /\ pipe_open' = FALSE
  /\ UNCHANGED <<input_vars, pc, exit_code, stdin_read, source, token,
                 ingest_vars, stderr, stdout, auth_vars, elapsed, pipe,
                 written>>

Tick ==
  /\ pc = "login_loop"
  /\ elapsed <= LoginTimeout
  /\ elapsed' = elapsed + 1
  /\ UNCHANGED <<input_vars, pc, exit_code, stdin_read, source, token,
                 ingest_vars, stderr, stdout, auth_vars, child, pipe,
                 pipe_open, written>>

\* ---------------------------------------- main lines 32-37: get_adx_token
\* The exceptions get_adx_token raises.
AuthErrors ==
  { Log("Azure CLI (az) is required but was not found on PATH."),
    Log("Azure CLI login failed or timed out."),
    Log(AttributeErrorText) }
    \cup { Wrap("Failed to obtain ADX token after login", LookupError(f, r)) :
             f \in {"resource", "scope"},
             r \in {x \in AzResults : CallOutcome(x) \notin {"token", "raise"}} }

\* main lines 32-37: the call of get_adx_token as one step: a token, or an
\* exception that ends the run with exit code 2.
AcquireToken ==
  /\ prog = "ingest_inline"
  /\ pc = "auth"
  /\ \/ \E t \in TokenValues :
          /\ token' = t
          /\ pc' = IF ndjson THEN "nd_loop" ELSE "single"
          /\ UNCHANGED <<stderr, exit_code>>
     \/ \E e \in AuthErrors :
          /\ stderr' = Append(stderr,
               Wrap("ERROR: Failed to acquire ADX token via Azure CLI", e))
          /\ Exit(2)
          /\ UNCHANGED token
  /\ UNCHANGED <<input_vars, stdin_read, source, ingest_vars, stdout,
                 auth_vars, child_vars>>

Next ==
  \/ ResolveInput
  \/ AcquireToken
  \/ NdjsonLine
  \/ NdjsonFlush
  \/ SingleObject
  \/ AuthStart
  \/ LookupResource
  \/ LookupScope
  \/ LoginStart
  \/ LoginLoop
  \/ ChildWrite
  \/ ChildCloseStdout
  \/ ChildExit
  \/ Tick

Spec == Init /\ [][Next]_vars

\* The program's own steps; the login child and the clock are not its own.
Program ==
  \/ ResolveInput
  \/ AcquireToken
  \/ NdjsonLine
  \/ NdjsonFlush
  \/ SingleObject
  \/ AuthStart
  \/ LookupResource
  \/ LookupScope
  \/ LoginStart
  \/ LoginLoop

\* The program takes its next step whenever it can (a blocked readline() is
\* no step it can take) and the clock goes on; the login child owes nothing.
FairSpec == Init /\ [][Next]_vars /\ WF_vars(Program) /\ WF_vars(Tick)

\* The one-step call of get_adx_token raises what the step-by-step model
\* raises: every fatal end of adx_cli_auth logs one of AuthErrors.
AuthErrorsComplete ==
  (prog = "adx_cli_auth" /\ pc = "done" /\ exit_code = 1) =>
    \E e \in AuthErrors : stderr[Len(stderr)] = Wrap("ERROR", e)

\* ----------------------------------------------------------------- claims
\* What the claims speak of, read off the input text and the run's record.
IsValidLine(l) == JsonLoads(Strip(l)).type = "dict"
IsMalformedLine(l) == Strip(l) # "" /\ ~IsValidLine(l)

NonBlankLines(t) == {i \in 1..Len(t) : Strip(t[i]) # ""}
MalformedLines(t) == {i \in 1..Len(t) : IsMalformedLine(t[i])}

RECURSIVE ValidRecords(_)
ValidRecords(t) ==
  IF t = <<>> THEN <<>>
  ELSE (IF IsValidLine(Head(t)) THEN <<JsonDumps(JsonLoads(Strip(Head(t))))>>
        ELSE <<>>) \o ValidRecords(Tail(t))

RECURSIVE ConcatBatches(_)
ConcatBatches(rs) ==
  IF rs = <<>> THEN <<>> ELSE Head(rs).batch \o ConcatBatches(Tail(rs))

RECURSIVE WarnedLines(_)
WarnedLines(log) ==
  IF log = <<>> THEN <<>>
  ELSE (IF Head(log).msg = "WARN: Skipping malformed JSON on line"
        THEN <<Head(log).num>> ELSE <<>>) \o WarnedLines(Tail(log))

\* The sequence ws lists the set P of numbers in increasing order.
ListsInOrder(ws, P) ==
  /\ Len(ws) = Cardinality(P)
  /\ \A k \in 1..Len(ws) : ws[k] \in P
  /\ \A k \in 1..(Len(ws) - 1) : ws[k] < ws[k + 1]

NdjsonRun == prog = "ingest_inline" /\ ndjson /\ token # None
Completed == pc = "done" /\ exit_code = 0
AllSucceeded == \A i \in 1..Len(requests) : requests[i].resp.status = HttpOk
ValidCount == Len(ValidRecords(text))

\* r = ceil(k / n), for n >= 1.
IsCeilDiv(r, k, n) == n * (r - 1) < k /\ k <= n * r

\* C1, as claimed: in NDJSON mode, once the run has ended, the records sent
\* plus the malformed lines skipped number the non-blank lines of the input.
C1_Original ==
  (NdjsonRun /\ pc = "done") =>
    total_sent + bad_lines = Cardinality(NonBlankLines(text))

\* C1, amended: in NDJSON mode, on every run that completes (the token was
\* acquired and no request failed), the records sent plus the malformed
\* lines skipped number the non-blank lines of the input, the final summary
\* reports these two counts, and the records sent are those of the requests.
C1_SentPlusSkipped ==
  (NdjsonRun /\ Completed) =>
    /\ total_sent + bad_lines = Cardinality(NonBlankLines(text))
    /\ stdout = <<Summary(total_sent, bad_lines)>>
    /\ total_sent = Len(ConcatBatches(requests))
    /\ bad_lines = Len(WarnedLines(stderr))

\* C1: a completed run that sent one record and skipped a blank and a malformed line.
C1_Witness ==
  /\ NdjsonRun /\ Completed
  /\ total_sent = 1 /\ bad_lines = 1
  /\ Cardinality(NonBlankLines(text)) < Len(text)

\* C2, as claimed (for a batch size N >= 1): once the run has ended the
\* requests issued number ceil(K/N), each carries at most N records and only
\* the last may carry fewer than N.
C2_Original ==
  (NdjsonRun /\ pc = "done" /\ batch_size >= 1) =>
    /\ IsCeilDiv(Len(requests), ValidCount, batch_size)
    /\ \A i \in 1..Len(requests) :
         /\ Len(requests[i].batch) <= batch_size
         /\ i < Len(requests) => Len(requests[i].batch) = batch_size

\* C2, amended: with M = max(1, N) for batch size N, in every NDJSON run each
\* request carries at least one and at most M records and only the last may
\* carry fewer than M; on a run that completes (no request failed) the
\* requests issued number ceil(K/M) for K valid lines.
C2_RequestCount ==
  NdjsonRun =>
    /\ \A i \in 1..Len(requests) :
         /\ Len(requests[i].batch) >= 1
         /\ Len(requests[i].batch) <= BatchLimit(batch_size)
         /\ i < Len(requests) => Len(requests[i].batch) = BatchLimit(batch_size)
    /\ Completed => IsCeilDiv(Len(requests), ValidCount, BatchLimit(batch_size))

\* C2: batch size 2 and three valid lines: a full batch, then a batch of one.
C2_Witness ==
  /\ NdjsonRun /\ Completed
  /\ batch_size = 2
  /\ ValidCount = 3
  /\ Len(requests) = 2
  /\ Len(requests[2].batch) = 1

\* C3: in both modes, a request answered with a non-2xx status is the last
\* request of the run (nothing is sent after it, the failed batch is not
\* sent again) and the run has ended with exit code 1.
C3_FailureEndsRun ==
  \A i \in 1..Len(requests) :
    (requests[i].resp.kind = "http" /\ ~IsSuccess2xx(requests[i].resp)) =>
      /\ i = Len(requests)
      /\ pc = "done"
      /\ exit_code = 1
      /\ stdout = <<>>

\* C3: a first batch answered 404 with valid lines still unread.
C3_Witness ==
  /\ NdjsonRun
  /\ Len(requests) = 1
  /\ requests[1].resp.status = 404
  /\ idx < Len(source)
  /\ IsValidLine(source[Len(source)])
  /\ exit_code = 1

\* The Python type of the input's top-level JSON value ("error": no JSON).
TopLevelType == JsonLoadsText(TextStrip(text)).type

\* C4: in single-object mode, when the top-level JSON value of the input is
\* an array, a string, a number, a boolean or null, no HTTP request is ever
\* sent and the run, once ended, has exit code 2.
C4_NonObjectRefused ==
  (prog = "ingest_inline" /\ ~ndjson
     /\ TopLevelType \in {"list", "str", "int", "float", "bool", "NoneType"}) =>
    /\ requests = <<>>
    /\ pc = "done" => exit_code = 2

\* C4: the input null, refused after the token was acquired.
C4_Witness ==
  /\ prog = "ingest_inline" /\ ~ndjson
  /\ TopLevelType = "NoneType"
  /\ token # None
  /\ pc = "done"

C6_Original ==
  (NdjsonRun /\ Completed) =>
    /\ ConcatBatches(requests) = ValidRecords(text)
    /\ compacted = <<>>

\* While every request succeeds, the batches sent followed by the buffer are
\* the valid lines read so far, in input order, and the buffer holds less
\* than a full batch between two iterations; on a run that completes the
\* batches sent are the valid lines of the input.
C6_State ==
  (NdjsonRun /\ AllSucceeded) =>
    /\ pc = "nd_loop" =>
         /\ ConcatBatches(requests) \o compacted
              = ValidRecords(SubSeq(source, 1, idx - 1))
         /\ Len(compacted) < BatchLimit(batch_size)
    /\ Completed => ConcatBatches(requests) = ValidRecords(text)

\* A send made inside the loop leaves the buffer empty.
C6_ClearedInLoop ==
  (pc = "nd_loop" /\ idx <= Len(source) /\ requests' # requests) =>
    compacted' = <<>>

\* C6, amended: in NDJSON mode, while every request succeeds, the batches
\* sent, in the order sent, followed by the buffer are the valid lines read
\* so far in input order (each record is sent once, none is lost or
\* duplicated), on a run that completes the batches sent are the valid lines
\* of the input, and the buffer is empty after each send made inside the
\* loop. The final send of the remaining partial batch does not clear it.
C6_InOrderOnce == []C6_State /\ [][C6_ClearedInLoop]_vars

\* C6: a completed run of two requests with a malformed line skipped.
C6_Witness ==
  /\ NdjsonRun /\ Completed
  /\ Len(requests) = 2
  /\ ConcatBatches(requests) = <<ObjA, ObjBComp>>
  /\ bad_lines = 1

\* C7: the login step ends: from every state in which the login child runs
\* past the timeout, the step is left (the child killed, the login failed).
C7_LoginTimeoutEnforced ==
  (pc = "login_loop" /\ child = "running" /\ TimedOut(elapsed))
    ~> (pc # "login_loop")

\* The lookups of auth_trace that have returned a token or an error.
ReturnedLookups ==
  {i \in 1..Len(auth_trace) :
     auth_trace[i].op = "lookup" /\ auth_trace[i].result \in {"token", "fail"}}

\* C8, as claimed: in a lookup that has returned, the scope form was tried
\* whenever the resource form yielded no token, and a failure is reported
\* only after both forms were tried.
C8_Original ==
  \A i \in ReturnedLookups :
    LET e == auth_trace[i] IN
    /\ e.calls[1].outcome # "token" => Len(e.calls) = 2
    /\ e.result = "fail" => Len(e.calls) = 2

\* C8, amended: within one lookup the scope form is tried exactly when the
\* resource form exits with a non-zero status. The lookup reports failure
\* either right after a resource form that exited 0 with an output that does
\* not parse or holds no token (the scope form is then not tried), or after
\* the resource form exited non-zero and the scope form failed too.
C8_ScopeFallback ==
  \A i \in 1..Len(auth_trace) :
    LET e == auth_trace[i] IN
    e.op = "lookup" =>
      /\ e.calls[1].form = "resource"
      /\ e.result = "pending" => (Len(e.calls) = 1 /\ e.calls[1].code # 0)
      /\ e.result # "pending" => (Len(e.calls) = 2 <=> e.calls[1].code # 0)
      /\ Len(e.calls) = 2 => e.calls[2].form = "scope"
      /\ e.result = "fail" =>
           \/ /\ Len(e.calls) = 1
              /\ e.calls[1].code = 0
              /\ e.calls[1].outcome \in {"missing", "parse_error"}
           \/ /\ Len(e.calls) = 2
              /\ e.calls[1].code # 0
              /\ e.calls[2].outcome \in {"nonzero", "missing", "parse_error"}

\* C8: a lookup that failed after both forms were tried.
C8_Witness ==
  /\ Len(auth_trace) >= 1
  /\ auth_trace[1].result = "fail"
  /\ Len(auth_trace[1].calls) = 2
  /\ auth_trace[1].calls[2].outcome = "missing"

\* C9: in one token acquisition there are at most three steps: a lookup, a
\* login launched only after that lookup failed, and a second lookup made
\* only after that login succeeded; a login that fails, times out or cannot
\* start, and a second lookup that fails, end the acquisition with a fatal
\* error and nothing more is tried.
C9_RetryOnce ==
  /\ Len(auth_trace) <= 3
  /\ \A i \in 1..Len(auth_trace) :
       LET e == auth_trace[i] IN
       /\ e.op = "login" =>
            /\ i = 2
            /\ auth_trace[1].op = "lookup" /\ auth_trace[1].result = "fail"
            /\ e.result \in {"failed", "timeout", "spawn_error"} =>
                 (Len(auth_trace) = 2 /\ pc = "done" /\ exit_code = 1)
       /\ e.op = "lookup" =>
            /\ i \in {1, 3}
            /\ i = 3 =>
                 /\ auth_trace[2].op = "login" /\ auth_trace[2].result = "ok"
                 /\ e.result \in {"fail", "raise"} =>
                      (pc = "done" /\ exit_code = 1)
  /\ attempt = 2 <=> (Len(auth_trace) >= 2 /\ auth_trace[2].result = "ok")
  /\ pc = "done" /\ prog = "adx_cli_auth" =>
       (exit_code = 0 <=> token \in TokenValues)

\* C9: a second lookup that failed after a successful login.
C9_Witness ==
  /\ Len(auth_trace) = 3
  /\ auth_trace[3].result = "fail"
  /\ pc = "done"

\* C10: on an NDJSON run that completes, the warnings carry, in order, the
\* 1-based positions in the input text of its malformed lines (the non-blank
\* lines that do not parse or are no JSON object), one warning for each.
C10_WarningLineNumbers ==
  (NdjsonRun /\ Completed) =>
    ListsInOrder(WarnedLines(stderr), MalformedLines(text))

====
